---- MODULE Spec2Model ----
(***************************************************************************)
(* Model of src/optimizer.py (class Portfolio) and of its caller           *)
(* src/example.py.                                                         *)
(*                                                                         *)
(* Floating point values are fixed-point integers wrapped in a record that *)
(* also carries the IEEE specials numpy produces instead of raising:       *)
(*   [k |-> "num", v |-> i]   a finite number                              *)
(*   [k |-> "nan", v |-> 0]   NaN                                          *)
(*   [k |-> "inf", v |-> s]   +inf (s = 1) or -inf (s = -1)                *)
(* A weight is an integer number of 1/Units shares.  A return is held in   *)
(* 1/(20*Units) steps so that the factor 0.95 is exact, a volatility in    *)
(* 1/Units steps, a Sharpe ratio in hundredths.                            *)
(***************************************************************************)
EXTENDS Integers, Sequences, FiniteSets, TLC

\* ---------------------------------------------------------------- bounds
\* Weight resolution: a weight is w/Units with w an integer.
Units == 4
\* Largest number of periods (rows) of a return series.
MaxT == 2
\* Largest n_points handed to efficient_frontier.
MaxPoints == 3

\* Asset universes (the columns of the return series), in column order.
Universes == { <<"A">>, <<"A", "B">> }
\* The periods a series may hold: the per-period return of every column, in
\* column order (a one-column series takes the first entry).
Rows == { <<2, 1>>, <<3, 3>>, <<2, 2>>, <<3, 2>> }

\* ------------------------------------------------------- program constants
\* returns.mean() * 252, returns.cov() * 252
Annualize == 252
\* self.mean.max() * 0.95, held as RetNum / RetDen
RetNum == 19
RetDen == 20

\* ---------------------------------------------------------------- floats
Num(i) == [k |-> "num", v |-> i]
NaN == [k |-> "nan", v |-> 0]
Inf(s) == [k |-> "inf", v |-> s]
IsNum(x) == x.k = "num"
IsNaN(x) == x.k = "nan"

Sign(i) == IF i > 0 THEN 1 ELSE IF i < 0 THEN -1 ELSE 0

\* x + y on finite numbers and NaN (no infinity is ever added in the program).
FAdd(x, y) == IF IsNum(x) /\ IsNum(y) THEN Num(x.v + y.v) ELSE NaN

\* c * x for an integer c: c * nan = nan, also for c = 0.
FScale(c, x) == IF IsNum(x) THEN Num(c * x.v) ELSE NaN

\* x < y as IEEE compares: every comparison with NaN is false.
FLess(x, y) ==
    /\ ~IsNaN(x)
    /\ ~IsNaN(y)
    /\ IF IsNum(x) /\ IsNum(y) THEN x.v < y.v
       ELSE IF IsNum(x) THEN y.v > 0
       ELSE IF IsNum(y) THEN x.v < 0
       ELSE x.v < y.v

\* floor(sqrt(i)) of a natural number
RECURSIVE ISqrtFrom(_, _)
ISqrtFrom(i, r) == IF (r + 1) * (r + 1) > i THEN r ELSE ISqrtFrom(i, r + 1)
ISqrt(i) == ISqrtFrom(i, 0)

\* np.sqrt: NaN for NaN and (with a warning, no exception) for a negative.
FSqrt(x) == IF IsNum(x) /\ x.v >= 0 THEN Num(ISqrt(x.v)) ELSE NaN

\* f[1] + ... + f[n]
RECURSIVE Sum(_, _)
Sum(f, n) == IF n = 0 THEN 0 ELSE Sum(f, n - 1) + f[n]

RECURSIVE FSum(_, _)
FSum(f, n) == IF n = 0 THEN Num(0) ELSE FAdd(FSum(f, n - 1), f[n])

Range(s) == { s[i] : i \in 1..Len(s) }

\* ------------------------------------------------------- the return series
\* A return series: its columns, its rows (oldest first) and the columns
\* that hold no value at all (every cell of such a column is NaN, whatever
\* the row says; at most the last column is such a column).
RowsOf(u) == { [a \in Range(u) |-> r[CHOOSE i \in 1..Len(u) : u[i] = a]] : r \in Rows }
SeriesOf(u, t) ==
    { [columns |-> u, rows |-> r, missing |-> m] :
        r \in [1..t -> RowsOf(u)], m \in { {}, {u[Len(u)]} } }
ReturnSeries == UNION { SeriesOf(c[1], c[2]) : c \in Universes \X (0..MaxT) }

\* returns.mean() * 252: the mean of the values present, NaN when none is.
MeanOf(ret) ==
    LET T == Len(ret.rows) IN
    [a \in Range(ret.columns) |->
        IF T = 0 \/ a \in ret.missing THEN NaN
        ELSE Num((Annualize * Sum([i \in 1..T |-> ret.rows[i][a]], T)) \div T)]

\* returns.cov() * 252: the sample covariance (ddof = 1), NaN with fewer
\* than two observations of the pair.
CovOf(ret) ==
    LET T == Len(ret.rows)
        C == Range(ret.columns)
        Sx(a) == Sum([i \in 1..T |-> ret.rows[i][a]], T)
        Sxy(a, b) == Sum([i \in 1..T |-> ret.rows[i][a] * ret.rows[i][b]], T)
    IN [a \in C |-> [b \in C |->
          IF T < 2 \/ a \in ret.missing \/ b \in ret.missing THEN NaN
          ELSE Num((Annualize * (T * Sxy(a, b) - Sx(a) * Sx(b))) \div (T * (T - 1)))]]

\* ------------------------------------------------------------------ state
VARIABLES
    returns,   \* the return series the caller builds the Portfolio from
    self,      \* the Portfolio object: returns, assets, mean, cov
    call,      \* the last finished call: operation, arguments, outcome
    ef         \* the frame of a running efficient_frontier call

vars == <<returns, self, call, ef>>

Assets == Range(self.assets)

\* Portfolio.__init__
NewPortfolio(ret) ==
    [built |-> TRUE, returns |-> ret, assets |-> ret.columns,
     mean |-> MeanOf(ret), cov |-> CovOf(ret)]

\* ------------------------------------------------------- weights and stats
\* n = len(self.assets)
N == Len(self.assets)

\* Weight vectors over the assets with every weight inside the bounds (0, 1).
Box == [Assets -> 0..Units]
\* ... that also meet the constraint np.sum(x) - 1 = 0.
Simplex == { x \in Box : Sum([i \in 1..N |-> x[self.assets[i]]], N) = Units }

\* np.dot(weights, self.mean), in 1/(RetDen * Units) steps
PortRet(w) ==
    FSum([i \in 1..N |-> FScale(RetDen * w[self.assets[i]], self.mean[self.assets[i]])], N)

\* np.dot(self.cov, weights)[i], in 1/Units steps
CovDot(w, i) ==
    FSum([j \in 1..N |-> FScale(w[self.assets[j]], self.cov[self.assets[i]][self.assets[j]])], N)

\* np.dot(weights, np.dot(self.cov, weights)), in 1/Units^2 steps
PortVar(w) ==
    FSum([i \in 1..N |->
            LET c == CovDot(w, i) IN IF IsNum(c) THEN FScale(w[self.assets[i]], c) ELSE NaN], N)

\* the objective of min_vol and _optimize_for_return
Volatility(w) == FSqrt(PortVar(w))

\* ret / vol on numpy floats, in hundredths: a zero divisor gives inf or nan
\* and a RuntimeWarning, never an exception.
FDiv(ret, vol) ==
    IF IsNaN(ret) \/ IsNaN(vol) THEN NaN
    ELSE IF vol.v = 0 THEN (IF ret.v = 0 THEN NaN ELSE Inf(Sign(ret.v)))
    ELSE Num((100 * ret.v) \div (RetDen * vol.v))

FNeg(x) == IF IsNaN(x) THEN NaN ELSE [k |-> x.k, v |-> 0 - x.v]

\* the objective of max_sharpe
NegSharpe(w) == FNeg(FDiv(PortRet(w), Volatility(w)))

\* Portfolio.stats once every asset is found in weights
Stats(w) ==
    LET ret == PortRet(w)
        vol == Volatility(w)
        sharpe == FDiv(ret, vol)
    IN [return |-> ret, volatility |-> vol, sharpe |-> sharpe]

\* Portfolio.stats: weights[asset] raises KeyError for an asset that the
\* mapping lacks; nothing else in it raises.
StatsCall(w) ==
    IF Assets \subseteq DOMAIN w
    THEN [raised |-> "none", value |-> Stats([a \in Assets |-> w[a]])]
    ELSE [raised |-> "KeyError", value |-> Stats([a \in Assets |-> 0])]

\* Portfolio.equal_weight: 1/n for every asset
EqualWeight == [a \in Assets |-> Units \div N]

\* Faulty variant, kept for comparison: the caller's weights are replaced by equal ones.
MarketCapWeightsRebalanced(market_caps) ==
    [a \in DOMAIN market_caps |-> Units \div Cardinality(DOMAIN market_caps)]

\* Portfolio.market_cap_weights
MarketCapWeights(market_caps) == market_caps

\* ----------------------------------------------------------------- solver
\* scipy.optimize.minimize(objective, guess, bounds, constraints) is not
\* code of the repository; the model keeps its contract.  A result has a
\* status and the last iterate x:
\*   "success"     x meets the bounds and the constraints and no feasible
\*                 point has a smaller objective;
\*   "infeasible"  no point meets the constraints; x is the iterate the
\*                 search stopped at;
\*   "maxiter"     some point meets them and the iteration budget ran out
\*                 before the search reached it; x likewise;
\*   "raise"       the call raised instead of returning.
\* The objective is handed over as its values on the feasible points.
\* The iterates a failed solve may stop at are bounded to two: the guess
\* and the lower corner of the box, which does not sum to one.
FailIterates == { EqualWeight, [a \in Assets |-> 0] }

Minimize(objective, feasible) ==
    LET valued == { <<y, objective[y]>> : y \in feasible }
        best == { p \in valued : ~ \E q \in valued : FLess(q[2], p[2]) }
    IN { [status |-> "success", x |-> p[1]] : p \in best }
       \cup { [status |-> IF feasible = {} THEN "infeasible" ELSE "maxiter", x |-> x] :
                x \in FailIterates }
       \cup { [status |-> "raise", x |-> EqualWeight] }

\* IEEE equality of the equality constraint: NaN equals nothing.
FEq(x, y) == IsNum(x) /\ IsNum(y) /\ x.v = y.v

\* w with np.sum(x) - 1 = 0, np.dot(x, self.mean) - target_return = 0 and
\* the bounds.
TargetFeasible(target) == { x \in Simplex : FEq(PortRet(x), target) }

\* minimize(neg_sharpe, guess, bounds=bounds, constraints=constraints)
SolveMaxSharpe == Minimize([y \in Simplex |-> NegSharpe(y)], Simplex)

\* minimize(volatility, guess, bounds=bounds, constraints=constraints)
SolveMinVol == Minimize([y \in Simplex |-> Volatility(y)], Simplex)

\* minimize(volatility, ...) under the two constraints of _optimize_for_return
SolveForReturn(target) ==
    Minimize([y \in TargetFeasible(target) |-> Volatility(y)], TargetFeasible(target))

\* result.success
Success(o) == o.status = "success"

\* an empty mapping stands for None
None == <<>>
IsNone(r) == DOMAIN r = {}

\* dict(zip(self.assets, result.x)), returned whatever result.success is
MaxSharpeResult(o) == [a \in Assets |-> o.x[a]]
MinVolResult(o) == [a \in Assets |-> o.x[a]]

\* Faulty variant, kept for comparison: result.success is not looked at, as in max_sharpe and min_vol.
OptimizeForReturnResultUnchecked(o) == [a \in Assets |-> o.x[a]]

\* dict(zip(self.assets, result.x)) if result.success else None
OptimizeForReturnResult(o) == IF Success(o) THEN [a \in Assets |-> o.x[a]] ELSE None

\* ------------------------------------------------------ efficient_frontier
\* self.mean.max(): pandas skips NaN, and gives NaN when nothing is left
MeanMax ==
    LET present == { a \in Assets : IsNum(self.mean[a]) } IN
    IF present = {} THEN NaN
    ELSE self.mean[CHOOSE a \in present : \A b \in present : self.mean[b].v <= self.mean[a].v]

\* max_ret = self.mean.max() * 0.95, in 1/(RetDen * Units) steps
MaxRet == FScale(RetNum * Units, MeanMax)

\* np.linspace(start, stop, num): y[i] = i * ((stop - start) / (num - 1)) +
\* start, then y[-1] = stop when num > 1.  With num = 1 the step is NaN and
\* y[0] = 0 * (stop - start) + start.  NaN at either end makes every
\* computed point NaN.
Linspace(start, stop, num) ==
    [i \in 1..num |->
        IF num > 1 /\ i = num THEN stop
        ELSE IF ~(IsNum(start) /\ IsNum(stop)) THEN NaN
        ELSE IF num = 1 THEN start
        ELSE Num(start.v + ((i - 1) * (stop.v - start.v)) \div (num - 1))]

\* "if weights:" on a dict or None
Truthy(weights) == DOMAIN weights # {}

\* The frame of efficient_frontier once min_vol has returned o.
EfBegin(n_points, o) ==
    LET min_vol_weights == MinVolResult(o)
        min_ret == StatsCall(min_vol_weights).value.return
        max_ret == MaxRet
    IN [pc |-> "loop", n_points |-> n_points, min_ret |-> min_ret, max_ret |-> max_ret,
        target_returns |-> Linspace(min_ret, max_ret, n_points), i |-> 1, log |-> <<>>,
        frontier_vols |-> <<>>, frontier_rets |-> <<>>]

\* Faulty variant, kept for comparison: a target without a point ends the sweep (break for continue).
EfStepBreak(f, o) ==
    LET keep == o.status = "success"
        stats == Stats(IF keep THEN o.x ELSE EqualWeight)
    IN [f EXCEPT !.i = IF keep THEN @ + 1 ELSE Len(f.target_returns) + 1,
                 !.log = Append(@, [target |-> f.target_returns[f.i], status |-> o.status,
                                    kept |-> keep, return |-> stats.return,
                                    volatility |-> stats.volatility]),
                 !.frontier_rets = IF keep THEN Append(@, stats.return) ELSE @,
                 !.frontier_vols = IF keep THEN Append(@, stats.volatility) ELSE @]

\* One pass of the loop body for a solve that ended as o: an exception is
\* caught by the bare except, a falsy result is skipped, anything else adds
\* a point; the loop goes on with the next target in every case.  log is
\* the history of the passes (the target, how its solve ended, the stats
\* computed last); it is not a variable of the program.
EfStep(f, o) ==
    LET raised == o.status = "raise"
        weights == IF raised THEN None ELSE OptimizeForReturnResult(o)
        keep == ~raised /\ Truthy(weights)
        stats == Stats(IF keep THEN weights ELSE EqualWeight)
    IN [f EXCEPT !.i = @ + 1,
                 !.log = Append(@, [target |-> f.target_returns[f.i], status |-> o.status,
                                    kept |-> keep, return |-> stats.return,
                                    volatility |-> stats.volatility]),
                 !.frontier_rets = IF keep THEN Append(@, stats.return) ELSE @,
                 !.frontier_vols = IF keep THEN Append(@, stats.volatility) ELSE @]

\* ----------------------------------------------------------- compare_all
\* The caller's market_caps argument: absent (None), an empty mapping, the
\* weights of get_market_caps (positive, summing to one; bounded here to the
\* ones whose first asset is a largest), or a mapping that lacks the last
\* asset.
NoCaps == [given |-> FALSE, caps |-> None]
MarketCapInputs ==
    { NoCaps, [given |-> TRUE, caps |-> None] }
    \cup { [given |-> TRUE, caps |-> x] :
             x \in { y \in Simplex : \A i \in 1..N : /\ y[self.assets[i]] > 0
                                                     /\ y[self.assets[i]] <= y[self.assets[1]] } }
    \cup { [given |-> TRUE, caps |-> [a \in Assets \ {self.assets[N]} |-> Units]] :
             i \in { j \in {1} : N > 1 } }

\* "if market_caps:" on None or a dict
CapsTruthy(mc) == mc.given /\ Truthy(mc.caps)

\* The strategies dict of compare_all, in insertion order.
Strategies(o1, o2, mc) ==
    << [name |-> "Equal Weight", value |-> EqualWeight],
       [name |-> "Max Sharpe", value |-> MaxSharpeResult(o1)],
       [name |-> "Min Volatility", value |-> MinVolResult(o2)] >>
    \o (IF CapsTruthy(mc)
        THEN << [name |-> "Market Cap", value |-> MarketCapWeights(mc.caps)] >>
        ELSE << >>)

\* The rows compare_all prints: the stats of every strategy, in order.
Printed(strategies) ==
    [j \in 1..Len(strategies) |->
        [name |-> strategies[j].name, stats |-> StatsCall(strategies[j].value)]]

\* What compare_all hands back: the strategies themselves.
CompareAllResult(strategies) == strategies

\* strategies['Max Sharpe'], strategies['Market Cap'] in analyze
Lookup(strategies, name) ==
    LET hits == { j \in 1..Len(strategies) : strategies[j].name = name } IN
    IF hits = {} THEN [raised |-> "KeyError", value |-> None]
    ELSE [raised |-> "none", value |-> strategies[CHOOSE j \in hits : TRUE].value]

\* ---------------------------------------------------------------- actions
Init ==
    /\ returns \in ReturnSeries
    /\ self = [built |-> FALSE]
    /\ call = [op |-> "none"]
    /\ ef = [pc |-> "idle"]

\* Portfolio(returns)
PortfolioInit ==
    /\ ~self.built
    /\ self' = NewPortfolio(returns)
    /\ call' = [op |-> "__init__", raised |-> "none"]
    /\ UNCHANGED <<returns, ef>>

\* The caller calls one operation at a time and takes its outcome before
\* the next call.
Ready == self.built /\ ef.pc = "idle" /\ call.op = "none"

TakeResult ==
    /\ ef.pc = "idle"
    /\ call.op # "none"
    /\ call' = [op |-> "none"]
    /\ UNCHANGED <<returns, self, ef>>

Raised(o) == IF o.status = "raise" THEN "SolverError" ELSE "none"

MaxSharpe ==
    /\ Ready
    /\ \E o \in SolveMaxSharpe :
         call' = [op |-> "max_sharpe", status |-> o.status, raised |-> Raised(o),
                  result |-> IF o.status = "raise" THEN None ELSE MaxSharpeResult(o)]
    /\ UNCHANGED <<returns, self, ef>>

MinVol ==
    /\ Ready
    /\ \E o \in SolveMinVol :
         call' = [op |-> "min_vol", status |-> o.status, raised |-> Raised(o),
                  result |-> IF o.status = "raise" THEN None ELSE MinVolResult(o)]
    /\ UNCHANGED <<returns, self, ef>>

\* The targets a caller asks _optimize_for_return for.
DirectTargets == { PortRet(x) : x \in Simplex } \cup { MaxRet }

OptimizeForReturn ==
    /\ Ready
    /\ \E target \in DirectTargets :
       \E o \in SolveForReturn(target) :
         call' = [op |-> "_optimize_for_return", arg |-> target,
                  feasible |-> TargetFeasible(target) # {},
                  status |-> o.status, raised |-> Raised(o),
                  result |-> IF o.status = "raise" THEN None ELSE OptimizeForReturnResult(o)]
    /\ UNCHANGED <<returns, self, ef>>

\* The weight mappings a caller hands to stats: full ones and ones that
\* lack an asset.
StatsInputs ==
    Simplex \cup { EqualWeight }
    \cup { [a \in Assets \ {self.assets[N]} |-> Units] }

\* stats reads weights and writes nothing into it.
WeightsAfterStats(w) == w

\* Faulty variant, kept for comparison: stats annualizes self.mean in place before it uses it.
StatsActionDrift ==
    /\ self.built /\ ef.pc = "idle" /\ call.op \in {"none", "stats"}
    /\ \E w \in StatsInputs :
         call' = [op |-> "stats", arg |-> w, argAfter |-> WeightsAfterStats(w),
                  raised |-> StatsCall(w).raised, result |-> StatsCall(w).value]
    /\ self' = [self EXCEPT !.mean = [a \in Assets |-> FScale(Annualize, @[a])]]
    /\ UNCHANGED <<returns, ef>>

\* stats may also be called again right after stats.
StatsAction ==
    /\ self.built /\ ef.pc = "idle" /\ call.op \in {"none", "stats"}
    /\ \E w \in StatsInputs :
         call' = [op |-> "stats", arg |-> w, argAfter |-> WeightsAfterStats(w),
                  raised |-> StatsCall(w).raised, result |-> StatsCall(w).value]
    /\ UNCHANGED <<returns, self, ef>>

EqualWeightAction ==
    /\ Ready
    /\ call' = [op |-> "equal_weight", raised |-> "none", result |-> EqualWeight]
    /\ UNCHANGED <<returns, self, ef>>

MarketCapWeightsAction ==
    /\ Ready
    /\ \E mc \in { m \in MarketCapInputs : m.given } :
         call' = [op |-> "market_cap_weights", arg |-> mc.caps, raised |-> "none",
                  result |-> MarketCapWeights(mc.caps)]
    /\ UNCHANGED <<returns, self, ef>>

EfficientFrontierBegin ==
    /\ Ready
    /\ \E n_points \in 0..MaxPoints :
       \E o \in SolveMinVol :
         IF o.status = "raise"
         THEN /\ call' = [op |-> "efficient_frontier", n_points |-> n_points,
                          phase |-> "raised", raised |-> Raised(o)]
              /\ ef' = ef
         ELSE /\ call' = [op |-> "efficient_frontier", n_points |-> n_points,
                          phase |-> "running", raised |-> "none"]
              /\ ef' = EfBegin(n_points, o)
    /\ UNCHANGED <<returns, self>>

EfficientFrontierStep ==
    /\ self.built
    /\ ef.pc = "loop"
    /\ ef.i <= Len(ef.target_returns)
    /\ \E o \in SolveForReturn(ef.target_returns[ef.i]) :
         ef' = EfStep(ef, o)
    /\ UNCHANGED <<returns, self, call>>

EfficientFrontierReturn ==
    /\ self.built
    /\ ef.pc = "loop"
    /\ ef.i > Len(ef.target_returns)
    /\ call' = [op |-> "efficient_frontier", n_points |-> ef.n_points,
                phase |-> "returned", raised |-> "none",
                min_ret |-> ef.min_ret, max_ret |-> ef.max_ret,
                target_returns |-> ef.target_returns, log |-> ef.log,
                result |-> [vols |-> ef.frontier_vols, rets |-> ef.frontier_rets]]
    /\ ef' = [pc |-> "idle"]
    /\ UNCHANGED <<returns, self>>

CompareAll ==
    /\ Ready
    /\ LET solved1 == SolveMaxSharpe
           solved2 == SolveMinVol
       IN
       \E mc \in MarketCapInputs :
       \E o1 \in solved1 :
       \E o2 \in solved2 :
         LET strategies == Strategies(o1, o2, mc)
             printed == Printed(strategies)
             solverRaised == o1.status = "raise" \/ o2.status = "raise"
             keyError == \E j \in 1..Len(printed) : printed[j].stats.raised # "none"
         IN call' = [op |-> "compare_all", arg |-> mc,
                     raised |-> IF solverRaised THEN "SolverError"
                                ELSE IF keyError THEN "KeyError" ELSE "none",
                     printed |-> IF solverRaised THEN << >>
                                 ELSE SubSeq(printed, 1,
                                        Cardinality({ j \in 1..Len(printed) :
                                          \A h \in 1..j : printed[h].stats.raised = "none" })),
                     result |-> IF solverRaised \/ keyError THEN << >>
                                ELSE CompareAllResult(strategies)]
    /\ UNCHANGED <<returns, self, ef>>

Next ==
    \/ PortfolioInit
    \/ MaxSharpe
    \/ MinVol
    \/ OptimizeForReturn
    \/ StatsAction
    \/ EqualWeightAction
    \/ MarketCapWeightsAction
    \/ EfficientFrontierBegin
    \/ EfficientFrontierStep
    \/ EfficientFrontierReturn
    \/ CompareAll
    \/ TakeResult

Spec == Init /\ [][Next]_vars

\* ------------------------------------------------------------- properties
Returned(op) == call.op = op /\ call.raised = "none"
FrontierReturned == call.op = "efficient_frontier" /\ call.phase = "returned"
StatsKeys == {"return", "volatility", "sharpe"}

\* The Portfolio was built from a series that the model builder is meant to
\* accept: two periods or more and no column without values.  The claims
\* that the code breaks are stated for such a Portfolio, so that what
\* refutes them never rests on an undefined mean or covariance.
SoundModel == self.built /\ Len(returns.rows) >= 2 /\ returns.missing = {}

\* C1: every weight vector that max_sharpe, min_vol or _optimize_for_return
\* hands back sums to one and has every weight within the bounds, whatever
\* way the solve ended.
C1_ReturnedWeightsFeasible ==
    (/\ SoundModel
     /\ call.op \in {"max_sharpe", "min_vol", "_optimize_for_return"}
     /\ call.raised = "none"
     /\ ~IsNone(call.result))
    => call.result \in Simplex

\* C2: max_sharpe and min_vol raise to their caller whenever the solve did
\* not report success, instead of returning the last iterate.
C2_FailurePropagates ==
    (SoundModel /\ call.op \in {"max_sharpe", "min_vol"} /\ call.status # "success")
    => call.raised # "none"

\* C3: whenever the solve of _optimize_for_return comes back, the operation
\* does not raise, returns None exactly when the solve did not report
\* success (so for every unreachable target), and otherwise returns a
\* mapping that gives a weight to every asset.
C3_NoneIffNotSuccess ==
    (call.op = "_optimize_for_return" /\ call.status # "raise")
    => /\ call.raised = "none"
       /\ IsNone(call.result) <=> call.status # "success"
       /\ ~IsNone(call.result) => DOMAIN call.result = Assets
       /\ ~call.feasible => IsNone(call.result)

C3_Witness ==
    /\ call.op = "_optimize_for_return"
    /\ ~call.feasible
    /\ call.status = "infeasible"
    /\ call.raised = "none"
    /\ IsNone(call.result)

\* C4: a call of efficient_frontier that returns has absorbed nothing but
\* infeasible targets: no pass ended in a convergence failure or in an
\* exception.
C4_OnlyInfeasibleAbsorbed ==
    (SoundModel /\ FrontierReturned)
    => \A i \in 1..Len(call.log) : call.log[i].status \in {"success", "infeasible"}

\* C5: the returns of the curve efficient_frontier returns never decrease
\* along the sequence.
C5_ReturnsNonDecreasing ==
    (SoundModel /\ FrontierReturned)
    => \A j \in 1..(Len(call.result.rets) - 1) :
         ~FLess(call.result.rets[j + 1], call.result.rets[j])

\* The part of C6 that does not depend on the ends of the grid: k targets,
\* evenly spaced (up to the rounding of one step), one pass per target in
\* grid order, a point exactly for the targets whose solve succeeded, the
\* two arrays paired index by index.
IsKept(e) == e.kept
C6_Sweep(c) ==
    LET k == c.n_points
        t == c.target_returns
        kept == SelectSeq(c.log, IsKept)
        rets == c.result.rets
        vols == c.result.vols
    IN /\ Len(t) = k
       /\ \A i \in 1..(k - 2) :
            (IsNum(t[i]) /\ IsNum(t[i + 1]) /\ IsNum(t[i + 2]))
            => (t[i + 2].v - t[i + 1].v) - (t[i + 1].v - t[i].v) \in {-1, 0, 1}
       /\ Len(c.log) = k
       /\ \A i \in 1..k : /\ c.log[i].target = t[i]
                          /\ c.log[i].kept <=> c.log[i].status = "success"
       /\ Len(rets) = Len(kept)
       /\ Len(vols) = Len(rets)
       /\ Len(rets) <= k
       /\ \A j \in 1..Len(kept) : /\ rets[j] = kept[j].return
                                  /\ vols[j] = kept[j].volatility
                                  /\ FEq(rets[j], kept[j].target)

\* The loop of efficient_frontier ends: it has made one pass per target so
\* far, is never past the end of the grid, and its next step can be taken
\* (a pass while a target is left, whatever way its solve ends; the return
\* after the last one).
C6_LoopEnds ==
    ef.pc = "loop"
    => /\ Len(ef.log) = ef.i - 1
       /\ Len(ef.target_returns) = ef.n_points
       /\ ef.i <= ef.n_points + 1
       /\ ef.i <= ef.n_points
          => SolveForReturn(ef.target_returns[ef.i]) # {}
       /\ ef.i = ef.n_points + 1 => ENABLED EfficientFrontierReturn

\* C6 as stated: for every k the grid has k evenly spaced targets, the
\* first the min_vol return and the last 0.95 times the highest mean, and
\* the sweep is as C6_Sweep and C6_LoopEnds say.
C6_GridSpansBothEnds ==
    /\ C6_LoopEnds
    /\ (SoundModel /\ FrontierReturned)
       => /\ C6_Sweep(call)
          /\ call.n_points >= 1
             => /\ call.target_returns[1] = call.min_ret
                /\ call.target_returns[call.n_points] = call.max_ret

\* C6 amended: the grid spans both ends for k >= 2; for k = 1 its only
\* target is the min_vol return; the sweep is as C6_Sweep and C6_LoopEnds
\* say.
C6_GridAndSweep ==
    /\ C6_LoopEnds
    /\ FrontierReturned
       => /\ C6_Sweep(call)
          /\ call.n_points >= 2
             => /\ call.target_returns[1] = call.min_ret
                /\ call.target_returns[call.n_points] = call.max_ret
          /\ call.n_points = 1 => call.target_returns[1] = call.min_ret

C6_Witness ==
    /\ FrontierReturned
    /\ call.n_points >= 3
    /\ call.target_returns[1] # call.target_returns[2]
    /\ call.log[1].kept
    /\ ~call.log[2].kept
    /\ call.log[3].kept
    /\ Len(call.result.rets) = 2

\* C7: stats never returns numbers for a portfolio of zero volatility; it
\* raises.
C7_ZeroVolatilityRaises ==
    (/\ SoundModel
     /\ call.op = "stats"
     /\ Assets \subseteq DOMAIN call.arg
     /\ call.result.volatility = Num(0))
    => call.raised # "none"

\* What C8 says of the entries whatever their values are: Equal Weight, Max
\* Sharpe, Min Volatility in this order, then Market Cap, present only when
\* supplied (and whenever a non-empty mapping was), passed through as is.
C8_Entries(c) ==
    LET r == c.result IN
    /\ Len(r) \in {3, 4}
    /\ r[1].name = "Equal Weight"
    /\ r[2].name = "Max Sharpe"
    /\ r[3].name = "Min Volatility"
    /\ Len(r) = 4 => /\ c.arg.given
                     /\ r[4].name = "Market Cap"
    /\ CapsTruthy(c.arg) => Len(r) = 4

\* C8 as stated: the mapping compare_all returns holds the stats of every
\* strategy.
C8_ReturnsStats ==
    (SoundModel /\ Returned("compare_all"))
    => /\ C8_Entries(call)
       /\ \A j \in 1..Len(call.result) : DOMAIN call.result[j].value = StatsKeys

\* C8 amended: compare_all computes (and prints) the stats of every
\* strategy in order, and the mapping it returns holds the weights of every
\* strategy, the market-cap weights being the caller's own.
C8_ReturnsWeights ==
    Returned("compare_all")
    => LET r == call.result
           p == call.printed
       IN /\ C8_Entries(call)
          /\ r[1].value = EqualWeight
          /\ \A j \in 1..3 : DOMAIN r[j].value = Assets
          /\ Len(r) = 4 => r[4].value = call.arg.caps
          /\ Len(p) = Len(r)
          /\ \A j \in 1..Len(r) : /\ p[j].name = r[j].name
                                  /\ p[j].stats.raised = "none"
                                  /\ p[j].stats.value = Stats(r[j].value)
          /\ Lookup(r, "Max Sharpe").raised = "none"
          /\ Lookup(r, "Max Sharpe").value = r[2].value

C8_Witness ==
    /\ Returned("compare_all")
    /\ Len(call.result) = 4
    /\ call.result[4].value = call.arg.caps
    /\ call.arg.caps # EqualWeight
    /\ Len(call.printed) = 4

\* C9: no step changes the return series or the model the Portfolio was
\* built with, stats leaves the mapping it was handed as it was, and stats
\* called again with the same weights (equal_weight() among them) gives
\* the same outcome.
C9_ModelNeverChanges ==
    [][ /\ returns' = returns
        /\ self.built => self' = self
        /\ self'.built => self' = NewPortfolio(returns')
        /\ call'.op = "stats" => call'.argAfter = call'.arg
        /\ (call.op = "stats" /\ call'.op = "stats" /\ call'.arg = call.arg)
           => (call'.result = call.result /\ call'.raised = call.raised)
      ]_vars

C9_Witness ==
    /\ call.op = "stats"
    /\ call.arg = EqualWeight
    /\ call.raised = "none"
    /\ self = NewPortfolio(returns)

\* C10: a Portfolio is only ever built from a series with at least two
\* periods and no column without values, so its mean and covariance are
\* all defined.
C10_ShortSeriesRejected ==
    self.built
    => /\ Len(returns.rows) >= 2
       /\ returns.missing = {}
       /\ \A a \in Assets : IsNum(self.mean[a])
       /\ \A a \in Assets : \A b \in Assets : IsNum(self.cov[a][b])

====
